---- MODULE Spec2Model ----
(***************************************************************************)
(* The note-taking MCP server of 05-complete-server: one in-memory store   *)
(* (notes, note_counter) behind two handlers, call_tool and read_resource, *)
(* and the catalog handlers.  Each handler is an operator from the current *)
(* state and its input to the new store and its outcome (a returned value  *)
(* or a raised exception); each action runs one handler from start to end. *)
(*                                                                         *)
(* Python str values are sequences of one-character strings, so that       *)
(* str(), lower(), "in", startswith() and split() are computed.  Instants  *)
(* (datetime.now().isoformat()) are natural numbers.                       *)
(*                                                                         *)
(* The run sends the requests of the sets *Calls; the properties are       *)
(* stated, in every state those requests reach, over every argument bag of *)
(* the sets *Args and every URI of Uris.                                   *)
(*                                                                         *)
(* Spec runs every handler; SpecTools runs the tool handler alone;         *)
(* SpecResources runs the resource and catalog handlers over the stores    *)
(* that create_note and delete_note make; SpecSteps runs the create_note   *)
(* and update_note branches one statement per step; SpecIds runs creations *)
(* up to the id LastId.                                                    *)
(***************************************************************************)
EXTENDS Naturals, Sequences, FiniteSets, TLC

VARIABLES
    notes,          \* the dict notes, in insertion order: <<[id, note], ...>>
    note_counter,   \* the global note_counter
    now,            \* the instant datetime.now() returns
    req,            \* the request handled last
    resp,           \* its outcome
    issued,         \* the identifiers create_note has returned, in order
    deleted         \* the identifiers delete_note has removed

vars == <<notes, note_counter, now, req, resp, issued, deleted>>

----------------------------------------------------------------------------
(* Bounds *)

\* a run holds at most this many events that never repeat: a note created
\* (note_counter grows) or the clock read later than before (now grows)
MaxEvents == 2

\* SpecIds creates notes until this id has been issued
LastId == 10

----------------------------------------------------------------------------
(* Python str *)

Upper == <<"A","B","C","D","E","F","G","H","I","J","K","L","M",
           "N","O","P","Q","R","S","T","U","V","W","X","Y","Z">>
LowerCase == <<"a","b","c","d","e","f","g","h","i","j","k","l","m",
               "n","o","p","q","r","s","t","u","v","w","x","y","z">>
Digit == <<"0","1","2","3","4","5","6","7","8","9">>

\* the lower-case letter of each upper-case letter
ToLower == [c \in {Upper[i] : i \in 1..26} |-> LowerCase[CHOOSE i \in 1..26 : Upper[i] = c]]

\* one character of str.lower()
LowerChar(c) == IF c \in DOMAIN ToLower THEN ToLower[c] ELSE c

\* s.lower()
lower(s) == [i \in 1..Len(s) |-> LowerChar(s[i])]

\* str(n) of a non-negative int: its decimal digits
RECURSIVE str(_)
str(n) == IF n < 10 THEN <<Digit[n + 1]>>
          ELSE str(n \div 10) \o <<Digit[(n % 10) + 1]>>

\* q in s: q is a substring of s
Contains(s, q) ==
    \E i \in 0..(Len(s) - Len(q)) : \A j \in 1..Len(q) : s[i + j] = q[j]

\* s.startswith(p)
startswith(s, p) ==
    /\ Len(p) <= Len(s)
    /\ \A j \in 1..Len(p) : s[j] = p[j]

\* a variant of LastSegment, s.split("/", 3)[-1]: what follows the third "/"
AfterThirdSlash(s) ==
    LET cuts == {i \in 1..Len(s) : s[i] = "/"}
        third == {i \in cuts : Cardinality({k \in cuts : k <= i}) = 3}
        from == IF third = {} THEN 0 ELSE CHOOSE i \in third : TRUE
    IN  SubSeq(s, from + 1, Len(s))

\* s.split("/")[-1]: what follows the last "/", the whole of s without one
LastSegment(s) ==
    LET cuts == {i \in 1..Len(s) : s[i] = "/"}
        from == IF cuts = {} THEN 0
                ELSE CHOOSE i \in cuts : \A k \in cuts : k <= i
    IN  SubSeq(s, from + 1, Len(s))

\* sep.join(parts)
RECURSIVE join(_, _)
join(sep, parts) ==
    IF parts = <<>> THEN <<>>
    ELSE IF Len(parts) = 1 THEN parts[1]
    ELSE parts[1] \o sep \o join(sep, Tail(parts))

CommaSpace == <<",", " ">>
NoneText == <<"n","o","n","e">>

\* a JSON value that is not a str: the number 7, written as a token that no
\* str, a sequence of single characters, is equal to
JsonNumber == <<"7 (int)">>

\* ', '.join(tags) raises TypeError on an item that is not a str
JoinRaises(tags) == \E i \in 1..Len(tags) : tags[i] = JsonNumber

JoinTypeError == [type |-> "TypeError", msg |-> "sequence item: expected str instance"]

\* a variant of TagsText: no marker for an empty list
TagsTextNoMarker(tags) == join(CommaSpace, tags)

\* ', '.join(tags) if tags else 'none'
TagsText(tags) == IF tags # <<>> THEN join(CommaSpace, tags) ELSE NoneText

----------------------------------------------------------------------------
(* Python dict, insertion-ordered *)

Keys(d) == {d[i].id : i \in 1..Len(d)}

\* the ids in iteration order
KeyOrder(d) == [i \in 1..Len(d) |-> d[i].id]

IndexOf(d, k) == CHOOSE i \in 1..Len(d) : d[i].id = k

\* d[k], for k in d
Get(d, k) == d[IndexOf(d, k)].note

\* a variant of Put: an existing key is removed and appended again
PutMovesToEnd(d, k, v) ==
    Append(SelectSeq(d, LAMBDA e : e.id # k), [id |-> k, note |-> v])

\* d[k] = v: in place when k is a key, appended otherwise
Put(d, k, v) ==
    IF k \in Keys(d)
    THEN [d EXCEPT ![IndexOf(d, k)] = [id |-> k, note |-> v]]
    ELSE Append(d, [id |-> k, note |-> v])

\* d without key k (d.pop(k))
Remove(d, k) ==
    LET i == IndexOf(d, k)
    IN  SubSeq(d, 1, i - 1) \o SubSeq(d, i + 1, Len(d))

----------------------------------------------------------------------------
(* Handler outcomes *)

\* return [TextContent(type="text", text=...)], one entry per segment
ReturnText(store, counter, text) ==
    [notes |-> store, note_counter |-> counter,
     out |-> [kind |-> "return", content |-> <<[type |-> "text", text |-> text]>>]]

\* an exception leaves the handler; the store is as the handler left it
Raise(store, counter, exc) ==
    [notes |-> store, note_counter |-> counter,
     out |-> [kind |-> "raise", exc |-> exc]]

----------------------------------------------------------------------------
(* The tool handler, call_tool *)

\* arguments[k] raises KeyError when k is missing
Missing(arguments, k) == k \notin DOMAIN arguments

\* the first of the keys, in the order the handler reads them, that is missing
FirstMissing(arguments, keys) ==
    keys[CHOOSE i \in 1..Len(keys) :
            /\ Missing(arguments, keys[i])
            /\ \A j \in 1..(i - 1) : ~Missing(arguments, keys[j])]

KeyError(k) == [type |-> "KeyError", key |-> k]
UnknownTool(name) == [type |-> "ValueError", msg |-> "Unknown tool", name |-> name]

\* arguments.get(k, default)
GetOr(arguments, k, default) ==
    IF k \in DOMAIN arguments THEN arguments[k] ELSE default

\* a variant of NewNoteId: the id taken from the size of the store
NewNoteIdFromSize == str(Len(notes) + 1)

\* note_id = str(note_counter)
NewNoteId == str(note_counter)

\* a variant of CounterAfterCreate: the counter recomputed from the size of the
\* store the new note has just joined
CounterFromSize == Len(notes) + 2

\* note_counter += 1
CounterAfterCreate == note_counter + 1

\* the text of "Error: Note {note_id} not found"
NotFoundText(note_id) == [msg |-> "Error: Note not found", id |-> note_id]

\* a variant of create_note: the id is taken before content is read
create_note_id_first(arguments) ==
    IF Missing(arguments, "title")
    THEN Raise(notes, note_counter, KeyError("title"))
    ELSE IF Missing(arguments, "content")
    THEN Raise(notes, CounterAfterCreate, KeyError("content"))
    ELSE
    LET title == arguments["title"]
        content == arguments["content"]
        tags == GetOr(arguments, "tags", <<>>)
        note_id == NewNoteId
        note == [title |-> title, content |-> content,
                 created |-> now, updated |-> now, tags |-> tags]
    IN  ReturnText(Put(notes, note_id, note), CounterAfterCreate,
                   [msg |-> "Created note with ID", id |-> note_id,
                    title |-> title, tags |-> TagsText(tags)])

\* a variant of create_note: the counter is incremented before the id is taken
create_note_increments_first(arguments) ==
    IF Missing(arguments, "title") \/ Missing(arguments, "content")
    THEN Raise(notes, note_counter,
               KeyError(FirstMissing(arguments, <<"title", "content">>)))
    ELSE
    LET title == arguments["title"]
        content == arguments["content"]
        tags == GetOr(arguments, "tags", <<>>)
        note_id == str(CounterAfterCreate)
        note == [title |-> title, content |-> content,
                 created |-> now, updated |-> now, tags |-> tags]
    IN  ReturnText(Put(notes, note_id, note), CounterAfterCreate,
                   [msg |-> "Created note with ID", id |-> note_id,
                    title |-> title, tags |-> TagsText(tags)])

create_note(arguments) ==
    IF Missing(arguments, "title") \/ Missing(arguments, "content")
    THEN Raise(notes, note_counter,
               KeyError(FirstMissing(arguments, <<"title", "content">>)))
    ELSE
    LET title == arguments["title"]
        content == arguments["content"]
        tags == GetOr(arguments, "tags", <<>>)
        note_id == NewNoteId
        note == [title |-> title, content |-> content,
                 created |-> now, updated |-> now, tags |-> tags]
    IN  IF JoinRaises(tags)
        THEN Raise(Put(notes, note_id, note), CounterAfterCreate, JoinTypeError)
        ELSE ReturnText(Put(notes, note_id, note), CounterAfterCreate,
                        [msg |-> "Created note with ID", id |-> note_id,
                         title |-> title, tags |-> TagsText(tags)])

\* a variant of UpdatedNote: the tags are not written
UpdatedNoteNoTags(note, arguments) ==
    LET updated == \/ "title" \in DOMAIN arguments
                   \/ "content" \in DOMAIN arguments
                   \/ "tags" \in DOMAIN arguments
    IN  [title |-> GetOr(arguments, "title", note.title),
         content |-> GetOr(arguments, "content", note.content),
         created |-> note.created,
         updated |-> IF updated THEN now ELSE note.updated,
         tags |-> note.tags]

\* a variant of UpdatedNote: the stamp is written on every update
UpdatedNoteAlwaysStamp(note, arguments) ==
    [title |-> GetOr(arguments, "title", note.title),
     content |-> GetOr(arguments, "content", note.content),
     created |-> note.created,
     updated |-> now,
     tags |-> GetOr(arguments, "tags", note.tags)]

\* a variant of UpdatedNote: a field that is not supplied is emptied
UpdatedNoteReplaces(note, arguments) ==
    LET updated == \/ "title" \in DOMAIN arguments
                   \/ "content" \in DOMAIN arguments
                   \/ "tags" \in DOMAIN arguments
    IN  [title |-> GetOr(arguments, "title", <<>>),
         content |-> GetOr(arguments, "content", <<>>),
         created |-> note.created,
         updated |-> IF updated THEN now ELSE note.updated,
         tags |-> GetOr(arguments, "tags", <<>>)]

\* a variant of UpdatedNote: the stamp is written when a supplied value
\* differs from the stored one
UpdatedNoteStampsOnChange(note, arguments) ==
    LET updated == \/ GetOr(arguments, "title", note.title) # note.title
                   \/ GetOr(arguments, "content", note.content) # note.content
                   \/ GetOr(arguments, "tags", note.tags) # note.tags
    IN  [title |-> GetOr(arguments, "title", note.title),
         content |-> GetOr(arguments, "content", note.content),
         created |-> note.created,
         updated |-> IF updated THEN now ELSE note.updated,
         tags |-> GetOr(arguments, "tags", note.tags)]

\* a list without its repeated items
RECURSIVE Distinct(_)
Distinct(s) ==
    IF s = <<>> THEN <<>>
    ELSE LET front == Distinct(SubSeq(s, 1, Len(s) - 1))
         IN  IF \E i \in 1..Len(front) : front[i] = s[Len(s)]
             THEN front ELSE Append(front, s[Len(s)])

\* a variant of UpdatedNote: a tag is stored once
UpdatedNoteDistinctTags(note, arguments) ==
    LET updated == \/ "title" \in DOMAIN arguments
                   \/ "content" \in DOMAIN arguments
                   \/ "tags" \in DOMAIN arguments
    IN  [title |-> GetOr(arguments, "title", note.title),
         content |-> GetOr(arguments, "content", note.content),
         created |-> note.created,
         updated |-> IF updated THEN now ELSE note.updated,
         tags |-> Distinct(GetOr(arguments, "tags", note.tags))]

\* the record after the three "if k in arguments" assignments and the stamp
UpdatedNote(note, arguments) ==
    LET updated == \/ "title" \in DOMAIN arguments
                   \/ "content" \in DOMAIN arguments
                   \/ "tags" \in DOMAIN arguments
    IN  [title |-> GetOr(arguments, "title", note.title),
         content |-> GetOr(arguments, "content", note.content),
         created |-> note.created,
         updated |-> IF updated THEN now ELSE note.updated,
         tags |-> GetOr(arguments, "tags", note.tags)]

\* a variant of update_note: an absent id is stored as a new note
update_note_upsert(arguments) ==
    IF Missing(arguments, "id")
    THEN Raise(notes, note_counter, KeyError("id"))
    ELSE
    LET note_id == arguments["id"]
        old == IF note_id \in Keys(notes) THEN Get(notes, note_id)
               ELSE [title |-> <<>>, content |-> <<>>, created |-> now,
                     updated |-> now, tags |-> <<>>]
        note == UpdatedNote(old, arguments)
    IN  ReturnText(Put(notes, note_id, note), note_counter,
                   [msg |-> "Updated note", id |-> note_id,
                    title |-> note.title, updated |-> note.updated])

update_note(arguments) ==
    IF Missing(arguments, "id")
    THEN Raise(notes, note_counter, KeyError("id"))
    ELSE
    LET note_id == arguments["id"]
    IN  IF note_id \notin Keys(notes)
        THEN ReturnText(notes, note_counter, NotFoundText(note_id))
        ELSE LET note == UpdatedNote(Get(notes, note_id), arguments)
             IN  ReturnText(Put(notes, note_id, note), note_counter,
                            [msg |-> "Updated note", id |-> note_id,
                             title |-> note.title, updated |-> note.updated])

\* a variant of delete_note: the counter is taken back by one
delete_note_decrements(arguments) ==
    IF Missing(arguments, "id")
    THEN Raise(notes, note_counter, KeyError("id"))
    ELSE
    LET note_id == arguments["id"]
    IN  IF note_id \notin Keys(notes)
        THEN ReturnText(notes, note_counter, NotFoundText(note_id))
        ELSE ReturnText(Remove(notes, note_id), note_counter - 1,
                        [msg |-> "Deleted note", id |-> note_id,
                         title |-> Get(notes, note_id).title])

delete_note(arguments) ==
    IF Missing(arguments, "id")
    THEN Raise(notes, note_counter, KeyError("id"))
    ELSE
    LET note_id == arguments["id"]
    IN  IF note_id \notin Keys(notes)
        THEN ReturnText(notes, note_counter, NotFoundText(note_id))
        ELSE ReturnText(Remove(notes, note_id), note_counter,
                        [msg |-> "Deleted note", id |-> note_id,
                         title |-> Get(notes, note_id).title])

\* a variant of TextMatch: title and content are compared as stored
TextMatchCaseSensitive(query, note) ==
    \/ Contains(note.title, query)
    \/ Contains(note.content, query)

\* query in note["title"].lower() or query in note["content"].lower()
TextMatch(query, note) ==
    \/ Contains(lower(note.title), query)
    \/ Contains(lower(note.content), query)

\* a variant of TagMatch: the tag is compared as stored
TagMatchCaseSensitive(query, note) ==
    \E t \in 1..Len(note.tags) : Contains(note.tags[t], query)

\* any(query in tag.lower() for tag in note["tags"])
TagMatch(query, note) ==
    \E t \in 1..Len(note.tags) : Contains(lower(note.tags[t]), query)

\* a variant of SearchResults: the tag test is an "if" of its own
RECURSIVE SearchResultsTwice(_, _, _)
SearchResultsTwice(d, query, search_tags) ==
    IF d = <<>> THEN <<>>
    ELSE LET note_id == d[1].id
             note == d[1].note
             text == IF TextMatch(query, note)
                     THEN <<[id |-> note_id, title |-> note.title,
                             tag_match |-> FALSE]>>
                     ELSE <<>>
             tag == IF search_tags /\ TagMatch(query, note)
                    THEN <<[id |-> note_id, title |-> note.title,
                            tag_match |-> TRUE]>>
                    ELSE <<>>
         IN  text \o tag \o SearchResultsTwice(Tail(d), query, search_tags)

\* the loop over notes.items(): one line per reported note, in store order
RECURSIVE SearchResults(_, _, _)
SearchResults(d, query, search_tags) ==
    IF d = <<>> THEN <<>>
    ELSE LET note_id == d[1].id
             note == d[1].note
             line == IF TextMatch(query, note)
                     THEN <<[id |-> note_id, title |-> note.title,
                             tag_match |-> FALSE]>>
                     ELSE IF search_tags /\ TagMatch(query, note)
                     THEN <<[id |-> note_id, title |-> note.title,
                             tag_match |-> TRUE]>>
                     ELSE <<>>
         IN  line \o SearchResults(Tail(d), query, search_tags)

\* a variant of search_notes: one text segment per reported note
search_notes_segments(arguments) ==
    IF Missing(arguments, "query")
    THEN Raise(notes, note_counter, KeyError("query"))
    ELSE
    LET query == lower(arguments["query"])
        search_tags == GetOr(arguments, "search_tags", TRUE)
        results == SearchResults(notes, query, search_tags)
    IN  [notes |-> notes, note_counter |-> note_counter,
         out |-> [kind |-> "return",
                  content |-> [i \in 1..Len(results) |->
                                  [type |-> "text",
                                   text |-> [msg |-> "Found note(s)", count |-> Len(results),
                                             lines |-> <<results[i]>>]]]]]

\* a variant of search_notes: tags are not searched unless asked for
search_notes_tags_off(arguments) ==
    IF Missing(arguments, "query")
    THEN Raise(notes, note_counter, KeyError("query"))
    ELSE
    LET query == lower(arguments["query"])
        search_tags == GetOr(arguments, "search_tags", FALSE)
        results == SearchResults(notes, query, search_tags)
    IN  IF results # <<>>
        THEN ReturnText(notes, note_counter,
                        [msg |-> "Found note(s)", count |-> Len(results),
                         lines |-> results])
        ELSE ReturnText(notes, note_counter,
                        [msg |-> "No notes found matching", query |-> query])

search_notes(arguments) ==
    IF Missing(arguments, "query")
    THEN Raise(notes, note_counter, KeyError("query"))
    ELSE
    LET query == lower(arguments["query"])
        search_tags == GetOr(arguments, "search_tags", TRUE)
        results == SearchResults(notes, query, search_tags)
    IN  IF results # <<>>
        THEN ReturnText(notes, note_counter,
                        [msg |-> "Found note(s)", count |-> Len(results),
                         lines |-> results])
        ELSE ReturnText(notes, note_counter,
                        [msg |-> "No notes found matching", query |-> query])

\* a variant of call_tool: an unknown name is answered with a text
call_tool_lenient(name, arguments) ==
    IF name = "create_note" THEN create_note(arguments)
    ELSE IF name = "update_note" THEN update_note(arguments)
    ELSE IF name = "delete_note" THEN delete_note(arguments)
    ELSE IF name = "search_notes" THEN search_notes(arguments)
    ELSE ReturnText(notes, note_counter, [msg |-> "Error: Unknown tool", name |-> name])

call_tool(name, arguments) ==
    IF name = "create_note" THEN create_note(arguments)
    ELSE IF name = "update_note" THEN update_note(arguments)
    ELSE IF name = "delete_note" THEN delete_note(arguments)
    ELSE IF name = "search_notes" THEN search_notes(arguments)
    ELSE Raise(notes, note_counter, UnknownTool(name))

----------------------------------------------------------------------------
(* The resource handler, read_resource, and the catalog *)

NotesScheme == <<"n","o","t","e","s",":","/","/">>
ListUri == NotesScheme \o <<"l","i","s","t">>
SummaryUri == NotesScheme \o <<"s","u","m","m","a","r","y">>
NotePrefix == NotesScheme \o <<"n","o","t","e","/">>

\* return a str payload
ReturnValue(value) ==
    [notes |-> notes, note_counter |-> note_counter,
     out |-> [kind |-> "return", value |-> value]]

\* json.dumps(note): the members of one note, in the order the dict holds them
DumpNote(note) ==
    << [key |-> "title", value |-> note.title],
       [key |-> "content", value |-> note.content],
       [key |-> "created", value |-> note.created],
       [key |-> "updated", value |-> note.updated],
       [key |-> "tags", value |-> note.tags] >>

\* json.dumps(notes): one member per key, in store order
DumpNotes(d) == [i \in 1..Len(d) |-> [key |-> d[i].id, value |-> DumpNote(d[i].note)]]

\* the summary's block of one note
SummaryEntry(e) ==
    [id |-> e.id, title |-> e.note.title, created |-> e.note.created,
     tags |-> TagsText(e.note.tags)]

SummaryText(d) ==
    IF d = <<>> THEN [msg |-> "No notes available."]
    ELSE [msg |-> "Total Notes", total |-> Len(d),
          entries |-> [i \in 1..Len(d) |-> SummaryEntry(d[i])]]

\* a variant of NoteNotFound: the miss is returned as a payload
NoteNotFoundAsText(note_id) ==
    ReturnValue([format |-> "text", summary |-> NotFoundText(note_id)])

\* raise ValueError(f"Note not found: {note_id}")
NoteNotFound(note_id) ==
    Raise(notes, note_counter,
          [type |-> "ValueError", msg |-> "Note not found", id |-> note_id])

\* raise ValueError(f"Unknown resource URI: {uri}")
UnknownResource(uri) ==
    Raise(notes, note_counter,
          [type |-> "ValueError", msg |-> "Unknown resource URI", uri |-> uri])

\* a variant of read_resource: the prefix is tested first, and as notes://
read_resource_prefix_first(uri) ==
    IF startswith(uri, NotesScheme)
    THEN LET note_id == LastSegment(uri)
         IN  IF note_id \in Keys(notes)
             THEN ReturnValue([format |-> "json",
                               members |-> DumpNote(Get(notes, note_id))])
             ELSE NoteNotFound(note_id)
    ELSE IF uri = ListUri
    THEN ReturnValue([format |-> "json", members |-> DumpNotes(notes)])
    ELSE IF uri = SummaryUri
    THEN ReturnValue([format |-> "text", summary |-> SummaryText(notes)])
    ELSE UnknownResource(uri)

\* a variant of read_resource: the note that is read is taken out of the store
read_resource_pops(uri) ==
    IF uri = ListUri
    THEN ReturnValue([format |-> "json", members |-> DumpNotes(notes)])
    ELSE IF uri = SummaryUri
    THEN ReturnValue([format |-> "text", summary |-> SummaryText(notes)])
    ELSE IF startswith(uri, NotePrefix)
    THEN LET note_id == LastSegment(uri)
         IN  IF note_id \in Keys(notes)
             THEN [notes |-> Remove(notes, note_id), note_counter |-> note_counter,
                   out |-> [kind |-> "return",
                            value |-> [format |-> "json",
                                       members |-> DumpNote(Get(notes, note_id))]]]
             ELSE NoteNotFound(note_id)
    ELSE UnknownResource(uri)

read_resource(uri) ==
    IF uri = ListUri
    THEN ReturnValue([format |-> "json", members |-> DumpNotes(notes)])
    ELSE IF uri = SummaryUri
    THEN ReturnValue([format |-> "text", summary |-> SummaryText(notes)])
    ELSE IF startswith(uri, NotePrefix)
    THEN LET note_id == LastSegment(uri)
         IN  IF note_id \in Keys(notes)
             THEN ReturnValue([format |-> "json",
                               members |-> DumpNote(Get(notes, note_id))])
             ELSE NoteNotFound(note_id)
    ELSE UnknownResource(uri)

\* a variant of list_tools: a fifth tool is listed, one call_tool has no
\* branch for
list_tools_with_export ==
    << [name |-> "create_note", required |-> <<"title", "content">>],
       [name |-> "update_note", required |-> <<"id">>],
       [name |-> "delete_note", required |-> <<"id">>],
       [name |-> "search_notes", required |-> <<"query">>],
       [name |-> "export_notes", required |-> <<>>] >>

\* list_tools(): each Tool's name and the "required" list of its inputSchema
list_tools ==
    << [name |-> "create_note", required |-> <<"title", "content">>],
       [name |-> "update_note", required |-> <<"id">>],
       [name |-> "delete_note", required |-> <<"id">>],
       [name |-> "search_notes", required |-> <<"query">>] >>

\* list_resources(): the two static resources
list_resources ==
    << [uri |-> ListUri, mimeType |-> "application/json"],
       [uri |-> SummaryUri, mimeType |-> "text/plain"] >>

\* a variant of list_resource_templates: the ids were joined once, at start
list_resource_templates_snapshot ==
    << [uri |-> NotePrefix \o <<"{","i","d","}">>,
        mimeType |-> "application/json",
        available |-> join(CommaSpace, << <<"1">> >>)] >>

\* list_resource_templates(): the description ends in ', '.join(notes.keys())
list_resource_templates ==
    << [uri |-> NotePrefix \o <<"{","i","d","}">>,
        mimeType |-> "application/json",
        available |-> join(CommaSpace, KeyOrder(notes))] >>

----------------------------------------------------------------------------
(* The requests a client sends *)

Titles == { <<"A","b">>, <<"c">> }
Contents == { <<"c">>, <<"b","A">> }
TagLists == { <<>>, << <<"D">>, <<"D">> >> }
Queries == { <<>>, <<"a">>, <<"B">>, <<"a","b">>, <<"d">>, <<"w","e">>, <<"z">> }

\* an id no run issues (the clients' "999")
AbsentId == <<"9","9","9">>

\* ids a client may name: every id the bounded run can issue, and one it cannot
IdInputs == {str(n) : n \in 1..(MaxEvents + 1)} \cup {AbsentId}

NoArgs == [k \in {} |-> TRUE]

\* the bags that hold key k with a value of S, and the bag without k
Opt(k, S) == {NoArgs} \cup {k :> v : v \in S}

Both(A, B) == {a @@ b : a \in A, b \in B}

\* every argument bag of each tool over the values above
CreateArgs == Both(Opt("title", Titles), Both(Opt("content", Contents), Opt("tags", TagLists)))
FieldArgs == CreateArgs
UpdateArgs == Both(Opt("id", IdInputs), FieldArgs)
DeleteArgs == Opt("id", IdInputs)
\* create_note bags whose tags hold an item that is not a str
LooseCreateArgs ==
    Both(Opt("title", Titles),
         Both(Opt("content", Contents), {[tags |-> << <<"D">>, JsonNumber >>]}))
SearchArgs == Both(Opt("query", Queries), Opt("search_tags", BOOLEAN))

ToolNames == {"create_note", "update_note", "delete_note", "search_notes"}
UnknownNames == {"nonexistent_tool", "Create_Note"}

Uris ==
    {ListUri, SummaryUri, NotePrefix, NotesScheme \o <<"n","o","t","e">>,
     NotesScheme \o <<"o","t","h","e","r">>, <<"f","i","l","e",":","/","/","l","i","s","t">>}
    \cup {NotePrefix \o id : id \in IdInputs}
    \cup {NotePrefix \o <<"x","/">> \o id : id \in IdInputs}

\* the requests the run sends: the properties below are stated over every bag
\* and URI above, in every state these requests reach
CreateCalls ==
    { [title |-> <<"A","b">>, content |-> <<"c">>, tags |-> << <<"D">>, <<"D">> >>],
      [title |-> <<"c">>, content |-> <<"b","A">>],
      [title |-> <<"c">>, tags |-> <<>>],
      [content |-> <<"c">>] }
FieldCalls ==
    { NoArgs, [title |-> <<"c">>, tags |-> <<>>] }
UpdateCalls == Both(Opt("id", IdInputs), FieldCalls)
SearchCalls ==
    { NoArgs, [query |-> <<"B">>], [query |-> <<"d">>, search_tags |-> FALSE],
      [query |-> <<"d">>], [query |-> <<"z">>], [query |-> <<"w","e">>] }
ReadCalls ==
    {ListUri, SummaryUri, NotesScheme \o <<"o","t","h","e","r">>,
     <<"f","i","l","e",":","/","/","l","i","s","t">>,
     NotePrefix \o <<"x","/","1">>,
     NotePrefix \o <<"1">>, NotePrefix \o <<"2">>, NotePrefix \o AbsentId}

----------------------------------------------------------------------------
(* The server *)

\* the preloaded note's stamp, "2024-01-15T10:00:00"; the clock starts after it
Preloaded == 0

Welcome ==
    [title |-> <<"W","e","l","c","o","m","e">>,
     content |-> <<"W","e","l","c","o","m","e"," ","t","o"," ","t","h","e"," ",
                   "n","o","t","e","s"," ","s","y","s","t","e","m","!">>,
     created |-> Preloaded, updated |-> Preloaded,
     tags |-> << <<"w","e","l","c","o","m","e">>, <<"i","n","f","o">> >>]

Init ==
    /\ notes = << [id |-> <<"1">>, note |-> Welcome] >>
    /\ note_counter = 2
    /\ now = Preloaded + 1
    /\ req = [op |-> "start"]
    /\ resp = [kind |-> "none"]
    /\ issued = <<>>
    /\ deleted = {}

\* the events left to the run
Events == (note_counter - 2) + (now - (Preloaded + 1))

\* what one call_tool request leaves: the store, the request and its outcome,
\* the id create_note returned, the id delete_note removed
Handled(name, arguments, r) ==
    /\ notes' = r.notes
    /\ note_counter' = r.note_counter
    /\ req' = [op |-> "call_tool", name |-> name, arguments |-> arguments]
    /\ resp' = r.out
    /\ issued' = IF name = "create_note" /\ r.out.kind = "return"
                 THEN Append(issued, r.out.content[1].text.id) ELSE issued
    /\ deleted' = IF /\ name = "delete_note" /\ r.out.kind = "return"
                     /\ r.out.content[1].text.msg = "Deleted note"
                  THEN deleted \cup {r.out.content[1].text.id} ELSE deleted
    /\ UNCHANGED now

CreateNote ==
    /\ Events < MaxEvents
    /\ \E arguments \in CreateCalls :
          Handled("create_note", arguments, call_tool("create_note", arguments))

UpdateNote ==
    /\ \E arguments \in UpdateCalls :
          Handled("update_note", arguments, call_tool("update_note", arguments))

DeleteNote ==
    /\ \E arguments \in DeleteArgs :
          Handled("delete_note", arguments, call_tool("delete_note", arguments))

SearchNotes ==
    /\ \E arguments \in SearchCalls :
          Handled("search_notes", arguments, call_tool("search_notes", arguments))

CallUnknownTool ==
    /\ \E arguments \in {NoArgs, [id |-> <<"1">>]} :
          Handled("nonexistent_tool", arguments, call_tool("nonexistent_tool", arguments))

ReadResource ==
    /\ \E uri \in ReadCalls :
          /\ notes' = read_resource(uri).notes
          /\ note_counter' = read_resource(uri).note_counter
          /\ req' = [op |-> "read_resource", uri |-> uri]
          /\ resp' = read_resource(uri).out
    /\ UNCHANGED <<now, issued, deleted>>

Catalog ==
    /\ \E op \in {"list_tools", "list_resources", "list_resource_templates"} :
          /\ req' = [op |-> op]
          /\ resp' = [kind |-> "return",
                      value |-> IF op = "list_tools" THEN list_tools
                                ELSE IF op = "list_resources" THEN list_resources
                                ELSE list_resource_templates]
    /\ UNCHANGED <<notes, note_counter, now, issued, deleted>>

\* time passes between two requests
Tick ==
    /\ Events < MaxEvents
    /\ now' = now + 1
    /\ UNCHANGED <<notes, note_counter, req, resp, issued, deleted>>

Next ==
    \/ CreateNote
    \/ UpdateNote
    \/ DeleteNote
    \/ SearchNotes
    \/ CallUnknownTool
    \/ ReadResource
    \/ Catalog
    \/ Tick

Spec == Init /\ [][Next]_vars

\* the runs of a client that calls tools and reads no resource: they reach
\* the stores that the runs of Spec reach
NextTools ==
    \/ CreateNote
    \/ UpdateNote
    \/ DeleteNote
    \/ SearchNotes
    \/ CallUnknownTool
    \/ Tick

SpecTools == Init /\ [][NextTools]_vars

\* the resource and catalog handlers, over the stores creations and deletions
\* make
NextResources ==
    \/ CreateNote
    \/ DeleteNote
    \/ ReadResource
    \/ Catalog

SpecResources == Init /\ [][NextResources]_vars

----------------------------------------------------------------------------
(* The update_note branch statement by statement.  The handlers are          *)
(* coroutines of one event loop: a handler that has started keeps the loop   *)
(* until it awaits or returns, and only then can another handler run.  While *)
(* update_note runs, req holds its position (pc), the note it found (before) *)
(* and the flag updated; resp is "running".                                  *)

Running == resp.kind = "running"

\* a variant of AwaitPoints: the handler awaits between its assignments
AwaitBetweenWrites == {"content", "tags", "stamp"}

\* a variant of AwaitPoints: create_note awaits once it has taken its id
AwaitAfterIdTaken == {"increment"}

\* the positions of the create_note and update_note branches at which they
\* await: they have none
AwaitPoints == {}

\* the event loop can give the turn to another handler
MayRun == IF Running THEN req.pc \in AwaitPoints ELSE TRUE

StepUpdateCalls ==
    { NoArgs, [id |-> AbsentId, title |-> <<"c">>], [id |-> <<"1">>],
      [id |-> <<"1">>, title |-> <<"c">>, tags |-> <<>>],
      [id |-> <<"2">>, content |-> <<"b","A">>],
      [id |-> <<"2">>, title |-> <<"A","b">>, content |-> <<"c">>, tags |-> << <<"D">>, <<"D">> >>] }

StepReadCalls == {ListUri, NotePrefix \o <<"1">>, NotePrefix \o <<"2">>}

\* note_id = arguments["id"]; the miss is answered at once, a hit starts the
\* assignments
BeginUpdate ==
    /\ ~Running
    /\ \E arguments \in StepUpdateCalls :
          IF Missing(arguments, "id") \/ arguments["id"] \notin Keys(notes)
          THEN Handled("update_note", arguments, call_tool("update_note", arguments))
          ELSE /\ req' = [op |-> "call_tool", name |-> "update_note",
                          arguments |-> arguments, pc |-> "title",
                          before |-> Get(notes, arguments["id"]), updated |-> FALSE]
               /\ resp' = [kind |-> "running"]
               /\ UNCHANGED <<notes, note_counter, now, issued, deleted>>

\* if k in arguments: notes[note_id][k] = arguments[k]; updated = True
WriteField(k, next) ==
    /\ req.pc = k
    /\ LET note_id == req.arguments["id"]
           note == Get(notes, note_id)
       IN  IF k \in DOMAIN req.arguments
           THEN /\ notes' = Put(notes, note_id, [note EXCEPT ![k] = req.arguments[k]])
                /\ req' = [req EXCEPT !.pc = next, !.updated = TRUE]
           ELSE /\ notes' = notes
                /\ req' = [req EXCEPT !.pc = next]
    /\ UNCHANGED <<note_counter, now, resp, issued, deleted>>

WriteTitle ==
    /\ Running
    /\ WriteField("title", "content")

WriteContent ==
    /\ Running
    /\ WriteField("content", "tags")

WriteTags ==
    /\ Running
    /\ WriteField("tags", "stamp")

\* if updated: notes[note_id]["updated"] = datetime.now().isoformat()
WriteStamp ==
    /\ Running
    /\ req.pc = "stamp"
    /\ LET note_id == req.arguments["id"]
           note == Get(notes, note_id)
       IN  notes' = IF req.updated
                    THEN Put(notes, note_id, [note EXCEPT !.updated = now])
                    ELSE notes
    /\ req' = [req EXCEPT !.pc = "return"]
    /\ UNCHANGED <<note_counter, now, resp, issued, deleted>>

\* return [TextContent(...)]
ReturnUpdate ==
    /\ Running
    /\ req.pc = "return"
    /\ LET note_id == req.arguments["id"]
           note == Get(notes, note_id)
       IN  resp' = ReturnText(notes, note_counter,
                              [msg |-> "Updated note", id |-> note_id,
                               title |-> note.title, updated |-> note.updated]).out
    /\ req' = [op |-> "call_tool", name |-> "update_note", arguments |-> req.arguments]
    /\ UNCHANGED <<notes, note_counter, now, issued, deleted>>

\* a read handled when the loop gives it the turn; one handled while
\* update_note is suspended is kept beside the running request
StepRead ==
    /\ MayRun
    /\ \E uri \in StepReadCalls :
          IF Running
          THEN /\ resp' = [kind |-> "running", uri |-> uri, seen |-> read_resource(uri).out]
               /\ req' = req
          ELSE /\ resp' = read_resource(uri).out
               /\ req' = [op |-> "read_resource", uri |-> uri]
    /\ UNCHANGED <<notes, note_counter, now, issued, deleted>>

\* title, content, tags = ...; note_id = str(note_counter)
BeginCreate ==
    /\ ~Running
    /\ Events < MaxEvents
    /\ \E arguments \in CreateCalls :
          IF Missing(arguments, "title") \/ Missing(arguments, "content")
          THEN Handled("create_note", arguments, call_tool("create_note", arguments))
          ELSE /\ req' = [op |-> "call_tool", name |-> "create_note",
                          arguments |-> arguments, pc |-> "increment",
                          note_id |-> NewNoteId]
               /\ resp' = [kind |-> "running"]
               /\ UNCHANGED <<notes, note_counter, now, issued, deleted>>

\* note_counter += 1
IncrementCounter ==
    /\ Running
    /\ req.pc = "increment"
    /\ note_counter' = CounterAfterCreate
    /\ req' = [req EXCEPT !.pc = "store"]
    /\ UNCHANGED <<notes, now, resp, issued, deleted>>

\* now = datetime.now().isoformat(); notes[note_id] = {...}
StoreNote ==
    /\ Running
    /\ req.pc = "store"
    /\ notes' = Put(notes, req.note_id,
                    [title |-> req.arguments["title"],
                     content |-> req.arguments["content"],
                     created |-> now, updated |-> now,
                     tags |-> GetOr(req.arguments, "tags", <<>>)])
    /\ req' = [req EXCEPT !.pc = "created"]
    /\ UNCHANGED <<note_counter, now, resp, issued, deleted>>

\* return [TextContent(...)]
ReturnCreate ==
    /\ Running
    /\ req.pc = "created"
    /\ resp' = ReturnText(notes, note_counter,
                          [msg |-> "Created note with ID", id |-> req.note_id,
                           title |-> req.arguments["title"],
                           tags |-> TagsText(GetOr(req.arguments, "tags", <<>>))]).out
    /\ req' = [op |-> "call_tool", name |-> "create_note", arguments |-> req.arguments]
    /\ issued' = Append(issued, req.note_id)
    /\ UNCHANGED <<notes, note_counter, now, deleted>>

\* a create_note handled from start to end when the loop gives it the turn;
\* the outcome of one handled while another handler is suspended is kept
\* beside the running request
StepCreate ==
    /\ MayRun
    /\ Events < MaxEvents
    /\ \E arguments \in CreateCalls :
          LET r == call_tool("create_note", arguments)
          IN  IF Running
              THEN /\ notes' = r.notes
                   /\ note_counter' = r.note_counter
                   /\ issued' = IF r.out.kind = "return"
                                THEN Append(issued, r.out.content[1].text.id)
                                ELSE issued
                   /\ req' = req
                   /\ resp' = [kind |-> "running", other |-> r.out]
                   /\ UNCHANGED <<now, deleted>>
              ELSE Handled("create_note", arguments, r)

StepDelete == ~Running /\ DeleteNote

StepTick == ~Running /\ Tick

NextSteps ==
    \/ BeginUpdate
    \/ WriteTitle
    \/ WriteContent
    \/ WriteTags
    \/ WriteStamp
    \/ ReturnUpdate
    \/ BeginCreate
    \/ IncrementCounter
    \/ StoreNote
    \/ ReturnCreate
    \/ StepRead
    \/ StepCreate
    \/ StepDelete
    \/ StepTick

SpecSteps == Init /\ [][NextSteps]_vars

----------------------------------------------------------------------------
(* A long run of creations: notes are created up to the id LastId, which has *)
(* two digits, while notes 1 and 9 are updated, deleted and read.            *)

IdsCreate ==
    /\ note_counter <= LastId
    /\ \E arguments \in {[title |-> <<"c">>, content |-> <<"c">>]} :
          Handled("create_note", arguments, call_tool("create_note", arguments))

IdsUpdate ==
    /\ \E arguments \in {[id |-> <<"9">>, title |-> <<"A","b">>],
                         [id |-> <<"1">>, tags |-> <<>>],
                         [id |-> <<"1">>, tags |-> << <<"e">>, <<"D">>, <<"e">> >>]} :
          Handled("update_note", arguments, call_tool("update_note", arguments))

IdsDelete ==
    /\ \E arguments \in {[id |-> <<"1">>], [id |-> <<"9">>]} :
          Handled("delete_note", arguments, call_tool("delete_note", arguments))

IdsRead ==
    /\ \E uri \in {ListUri, NotePrefix \o <<"1">>} :
          /\ notes' = read_resource(uri).notes
          /\ note_counter' = read_resource(uri).note_counter
          /\ req' = [op |-> "read_resource", uri |-> uri]
          /\ resp' = read_resource(uri).out
    /\ UNCHANGED <<now, issued, deleted>>

NextIds ==
    \/ IdsCreate
    \/ IdsUpdate
    \/ IdsDelete
    \/ IdsRead

SpecIds == Init /\ [][NextIds]_vars

----------------------------------------------------------------------------
(* Properties *)

\* int(s) of a decimal numeral
DigitValue(c) == (CHOOSE i \in 1..10 : Digit[i] = c) - 1

RECURSIVE int(_)
int(s) == IF s = <<>> THEN 0
          ELSE 10 * int(SubSeq(s, 1, Len(s) - 1)) + DigitValue(s[Len(s)])

\* the request handled last was this tool and it returned this message
Returned(name, msg) ==
    /\ req.op = "call_tool"
    /\ req.name = name
    /\ resp.kind = "return"
    /\ resp.content[1].text.msg = msg

\* the id the tool request handled last named, and the id create_note returned
ReturnedId == resp.content[1].text.id

\* the request handled last raised an exception of this type
Raised(type) == resp.kind = "raise" /\ resp.exc.type = type

\* C1: the identifiers successive create_note calls return are strictly
\* increasing as numbers, so none is returned twice, whatever update_note,
\* delete_note, search_notes calls and resource reads come between them.
C1_IssuedIdsIncrease ==
    \A i, j \in 1..Len(issued) :
        i < j => int(issued[i]) < int(issued[j])

\* C1 witness: the second create_note has just returned, and delete_note had
\* removed the first issued id before it, when that id was the last one issued.
C1_Witness ==
    /\ Returned("create_note", "Created note with ID")
    /\ Len(issued) = 2
    /\ ReturnedId = issued[2]
    /\ issued[1] \in deleted

\* C2: note_counter is strictly greater than every identifier that is a key of
\* the store and every identifier ever issued or preloaded, deleted or not.
C2_CounterAboveEveryId ==
    \A id \in Keys(notes) \cup {issued[i] : i \in 1..Len(issued)} \cup {<<"1">>} :
        int(id) < note_counter

\* C2 witness: two ids have been issued, one of them and the preloaded note
\* have since been deleted.
C2_Witness ==
    /\ Len(issued) = 2
    /\ <<"1">> \in deleted
    /\ \E i \in 1..2 : issued[i] \in deleted

\* C3: once delete_note has removed an id, every lookup of it misses from then
\* on: it is no key of the store, reading notes://note/<id> raises, update_note
\* and delete_note on it report not found, however many notes are created later.
C3_DeletedStaysAbsent ==
    \A id \in deleted :
        /\ id \notin Keys(notes)
        /\ read_resource(NotePrefix \o id).out.kind = "raise"
        /\ \A fields \in FieldArgs :
              update_note(("id" :> id) @@ fields).out.content[1].text = NotFoundText(id)
        /\ delete_note([id |-> id]).out.content[1].text = NotFoundText(id)

\* C3 witness: a create_note has just returned id 3, after delete_note had
\* removed both the preloaded id 1 and the issued id 2.
C3_Witness ==
    /\ Returned("create_note", "Created note with ID")
    /\ ReturnedId = <<"3">>
    /\ deleted = {<<"1">>, <<"2">>}

\* json.loads(payload)[k]
Member(members, k) ==
    (CHOOSE m \in {members[i] : i \in 1..Len(members)} : m.key = k).value

MemberKeys(members) == {members[i].key : i \in 1..Len(members)}

\* C4: a resource read that follows a mutation reflects it.  In every state
\* notes://note/<id> returns the title, content and tags the store holds for
\* <id>, notes://list holds exactly the ids of the store, notes://summary
\* reports their number (or the empty message); and the state a create_note,
\* update_note or delete_note has just left is read back as that request asked:
\* the created note with the values supplied, the updated note with every
\* supplied field, the deleted id as a miss.
C4_ReadsReflectMutations ==
    LET list == read_resource(ListUri).out
        summary == read_resource(SummaryUri).out
        one(id) == read_resource(NotePrefix \o id).out
    IN  /\ list.kind = "return"
        /\ MemberKeys(list.value.members) = Keys(notes)
        /\ Len(list.value.members) = Cardinality(Keys(notes))
        /\ summary.kind = "return"
        /\ IF Keys(notes) = {}
           THEN summary.value.summary.msg = "No notes available."
           ELSE /\ summary.value.summary.msg = "Total Notes"
                /\ summary.value.summary.total = Cardinality(Keys(notes))
        /\ \A id \in Keys(notes) :
              /\ one(id).kind = "return"
              /\ \A k \in {"title", "content", "tags"} :
                    Member(one(id).value.members, k) = Get(notes, id)[k]
        /\ Returned("create_note", "Created note with ID") =>
              /\ one(ReturnedId).kind = "return"
              /\ Member(one(ReturnedId).value.members, "title") = req.arguments["title"]
              /\ Member(one(ReturnedId).value.members, "content") = req.arguments["content"]
              /\ Member(one(ReturnedId).value.members, "tags")
                    = GetOr(req.arguments, "tags", <<>>)
              /\ ReturnedId \in MemberKeys(list.value.members)
        /\ Returned("update_note", "Updated note") =>
              /\ one(ReturnedId).kind = "return"
              /\ \A k \in {"title", "content", "tags"} \cap DOMAIN req.arguments :
                    Member(one(ReturnedId).value.members, k) = req.arguments[k]
        /\ Returned("delete_note", "Deleted note") =>
              /\ one(ReturnedId).kind = "raise"
              /\ ReturnedId \notin MemberKeys(list.value.members)

\* C4 witness: update_note has just overwritten the tags of note 2 with the
\* empty list, at a later instant than the one note 2 was created at.
C4_Witness ==
    /\ Returned("update_note", "Updated note")
    /\ "tags" \in DOMAIN req.arguments
    /\ ReturnedId = <<"2">>
    /\ req.arguments["tags"] = <<>>
    /\ Get(notes, <<"2">>).created < Get(notes, <<"2">>).updated

\* C5: update_note and delete_note on an id that is no key of the store return
\* one text segment that reports the note as not found, and leave the store
\* and the counter as they were; update_note creates nothing.
C5_AbsentIdIsAResult ==
    \A id \in IdInputs \ Keys(notes) :
        /\ \A fields \in FieldArgs :
              LET r == call_tool("update_note", ("id" :> id) @@ fields)
              IN  /\ r.out.kind = "return"
                  /\ Len(r.out.content) = 1
                  /\ r.out.content[1].text = NotFoundText(id)
                  /\ r.notes = notes
                  /\ r.note_counter = note_counter
        /\ LET r == call_tool("delete_note", [id |-> id])
           IN  /\ r.out.kind = "return"
               /\ Len(r.out.content) = 1
               /\ r.out.content[1].text = NotFoundText(id)
               /\ r.notes = notes
               /\ r.note_counter = note_counter

\* C5 witness: update_note with a title has just reported an absent id as not
\* found.
C5_Witness ==
    /\ Returned("update_note", "Error: Note not found")
    /\ "title" \in DOMAIN req.arguments
    /\ req.arguments["id"] \notin Keys(notes)

\* C6: a read of a notes://note/ URI whose identifier (its last segment) is no
\* key of the store raises the note-not-found ValueError and returns no
\* payload, while update_note and delete_note on that identifier return.
C6_AbsentNoteReadRaises ==
    \A uri \in Uris :
        (startswith(uri, NotePrefix) /\ LastSegment(uri) \notin Keys(notes)) =>
            /\ read_resource(uri).out.kind = "raise"
            /\ read_resource(uri).out.exc.msg = "Note not found"
            /\ call_tool("update_note", [id |-> LastSegment(uri)]).out.kind = "return"
            /\ call_tool("delete_note", [id |-> LastSegment(uri)]).out.kind = "return"

\* C6 witness: a read of notes://note/999 has just raised.
C6_Witness ==
    /\ req.op = "read_resource"
    /\ req.uri = NotePrefix \o AbsentId
    /\ Raised("ValueError")

\* C7: a tool name outside the four known ones raises the unknown-tool
\* ValueError, whatever the arguments, and leaves the store and the counter
\* as they were.
C7_UnknownToolRaises ==
    \A name \in UnknownNames, arguments \in CreateArgs \cup DeleteArgs \cup SearchArgs :
        LET r == call_tool(name, arguments)
        IN  /\ r.out.kind = "raise"
            /\ r.out.exc = UnknownTool(name)
            /\ r.notes = notes
            /\ r.note_counter = note_counter

\* C7 witness: a call of nonexistent_tool has just raised.
C7_Witness ==
    /\ req.op = "call_tool"
    /\ req.name = "nonexistent_tool"
    /\ Raised("ValueError")

\* the argument bags of a known tool
ArgsOf(name) ==
    IF name = "create_note" THEN CreateArgs
    ELSE IF name = "update_note" THEN UpdateArgs
    ELSE IF name = "delete_note" THEN DeleteArgs
    ELSE SearchArgs

\* the arguments the catalog declares required for a tool
RequiredOf(name) ==
    LET tool == CHOOSE t \in {list_tools[i] : i \in 1..Len(list_tools)} : t.name = name
    IN  {tool.required[i] : i \in 1..Len(tool.required)}

\* C8: a known tool called without one of the arguments its schema requires
\* raises (a KeyError) and leaves the store and the counter as they were.
C8_MissingArgumentRaises ==
    \A name \in ToolNames :
        \A arguments \in ArgsOf(name) :
            (RequiredOf(name) \ DOMAIN arguments # {}) =>
                LET r == call_tool(name, arguments)
                IN  /\ r.out.kind = "raise"
                    /\ r.out.exc.type = "KeyError"
                    /\ r.out.exc.key \in RequiredOf(name) \ DOMAIN arguments
                    /\ r.notes = notes
                    /\ r.note_counter = note_counter

\* C8 witness: create_note with a title and no content has just raised, after
\* an earlier create_note had issued an id.
C8_Witness ==
    /\ req.op = "call_tool"
    /\ req.name = "create_note"
    /\ DOMAIN req.arguments = {"title", "tags"}
    /\ Raised("KeyError")
    /\ Len(issued) = 1

\* q occurs in s, by the pieces of s
Occurs(q, s) ==
    \E i \in 1..(Len(s) + 1 - Len(q)) : SubSeq(s, i, i + Len(q) - 1) = q

\* the ids a search_notes outcome reports
Reported(out) ==
    IF out.content[1].text.msg = "Found note(s)"
    THEN {out.content[1].text.lines[i].id : i \in 1..Len(out.content[1].text.lines)}
    ELSE {}

\* C9: search_notes(query, search_tags) reports a note if and only if the
\* lower-cased query occurs in its lower-cased title or content, or, with
\* search_tags true, in one of its lower-cased tags; for every query, the
\* empty one included.
C9_SearchReportsExactlyMatches ==
    \A query \in Queries, search_tags \in BOOLEAN :
        LET r == call_tool("search_notes", [query |-> query, search_tags |-> search_tags])
        IN  /\ r.out.kind = "return"
            /\ \A i \in 1..Len(notes) :
                  notes[i].id \in Reported(r.out) <=>
                      \/ Occurs(lower(query), lower(notes[i].note.title))
                      \/ Occurs(lower(query), lower(notes[i].note.content))
                      \/ /\ search_tags
                         /\ \E t \in 1..Len(notes[i].note.tags) :
                               Occurs(lower(query), lower(notes[i].note.tags[t]))

\* C9 witness: a search without tags has just found nothing for a query that
\* occurs in a tag of a stored note (in another case), and in no title or
\* content.
C9_Witness ==
    /\ Returned("search_notes", "No notes found matching")
    /\ req.arguments = [query |-> <<"d">>, search_tags |-> FALSE]
    /\ \E i \in 1..Len(notes) : <<"D">> \in {notes[i].note.tags[t] : t \in 1..Len(notes[i].note.tags)}
    /\ Reported(call_tool("search_notes", [query |-> <<"d">>, search_tags |-> TRUE]).out) # {}

\* C10: update_note on an id of the store with none of title, content, tags
\* among its arguments returns its text and leaves the store, the note's
\* updated stamp included, and the counter as they were.
C10_UpdateWithoutFieldsChangesNothing ==
    \A id \in Keys(notes) :
      \A arguments \in {[id |-> id], [id |-> id, search_tags |-> TRUE]} :
        LET r == call_tool("update_note", arguments)
        IN  /\ r.out.kind = "return"
            /\ r.out.content[1].text.msg = "Updated note"
            /\ r.out.content[1].text.updated = Get(notes, id).updated
            /\ r.notes = notes
            /\ r.note_counter = note_counter

\* C10 witness: update_note with an id alone has just returned for a note that
\* was created at an earlier instant than the present one.
C10_Witness ==
    /\ Returned("update_note", "Updated note")
    /\ DOMAIN req.arguments = {"id"}
    /\ req.arguments["id"] = <<"2">>
    /\ Get(notes, <<"2">>).updated < now

\* the bags of FieldArgs that supply at least one of title, content, tags
SuppliedFields == {f \in FieldArgs : DOMAIN f # {}}

\* update_note(id, fields) wrote exactly the supplied fields of note id and
\* left the other fields, the created stamp, the order of the keys, every
\* other note and the counter as they are in the present store
WritesExactly(id, fields, r) ==
    LET old == Get(notes, id)
        new == Get(r.notes, id)
    IN  /\ r.out.kind = "return"
        /\ r.out.content[1].text.msg = "Updated note"
        /\ KeyOrder(r.notes) = KeyOrder(notes)
        /\ new.title = GetOr(fields, "title", old.title)
        /\ new.content = GetOr(fields, "content", old.content)
        /\ new.tags = GetOr(fields, "tags", old.tags)
        /\ new.created = old.created
        /\ \A other \in Keys(notes) \ {id} : Get(r.notes, other) = Get(notes, other)
        /\ r.note_counter = note_counter

\* C11 as stated: update_note on an id of the store with at least one of
\* title, content, tags overwrites exactly the supplied fields and changes the
\* updated stamp to a value other than the one it had.
C11_StampAlwaysChanges ==
    \A id \in Keys(notes) :
      \A fields \in SuppliedFields :
        LET r == call_tool("update_note", ("id" :> id) @@ fields)
        IN  /\ WritesExactly(id, fields, r)
            /\ Get(r.notes, id).updated # Get(notes, id).updated

\* C11, amended: update_note on an id of the store with at least one of title,
\* content, tags overwrites exactly the supplied fields with the supplied
\* values and sets the updated stamp to the clock's reading at the call; the
\* fields not supplied, the created stamp, the id, every other note and the
\* counter are unchanged.
C11_UpdateWritesSuppliedFields ==
    \A id \in Keys(notes) :
      \A fields \in SuppliedFields :
        LET r == call_tool("update_note", ("id" :> id) @@ fields)
        IN  /\ WritesExactly(id, fields, r)
            /\ Get(r.notes, id).updated = now
            /\ r.out.content[1].text.updated = now

\* C11 witness: update_note with a title and tags has just returned for the
\* note with id 2, another note is stored beside it, and the note's updated
\* stamp is the present instant, later than its created stamp.
C11_Witness ==
    /\ Returned("update_note", "Updated note")
    /\ req.arguments = [id |-> <<"2">>, title |-> <<"c">>, tags |-> <<>>]
    /\ Keys(notes) = {<<"1">>, <<"2">>}
    /\ Get(notes, <<"2">>).title = <<"c">>
    /\ Get(notes, <<"2">>).tags = <<>>
    /\ Get(notes, <<"2">>).updated = now
    /\ Get(notes, <<"2">>).created < now

\* C12: a read whose URI does not begin with the scheme prefix notes:// ends
\* in a fault raised before the three address classes are tried, one that is
\* not the unknown-resource fault of an unmatched notes:// address.
C12_ForeignSchemeIsMalformedAddress ==
    (req.op = "read_resource" /\ ~startswith(req.uri, NotesScheme))
        => /\ resp.kind = "raise"
           /\ resp.exc.msg # UnknownResource(req.uri).out.exc.msg

\* C13: read_resource puts every URI in exactly one class, tried in the order
\* static URI, notes://note/ prefix, no match: notes://list and
\* notes://summary return the view of the whole store and never the outcome
\* of a lookup by id, a URI with the prefix returns the note its last segment
\* names or the note-not-found fault, and every other URI raises the
\* unknown-resource fault.
C13_ReadClassifiesByPrecedence ==
    \A uri \in Uris :
        LET out == read_resource(uri).out
            static == uri \in {list_resources[i].uri : i \in 1..Len(list_resources)}
            prefixed == startswith(uri, NotePrefix)
        IN  /\ uri = ListUri =>
                /\ out.kind = "return"
                /\ out.value.format = "json"
                /\ MemberKeys(out.value.members) = Keys(notes)
            /\ uri = SummaryUri =>
                /\ out.kind = "return"
                /\ out.value.format = "text"
                /\ out.value.summary.msg = "Total Notes" => out.value.summary.total = Len(notes)
                /\ out.value.summary.msg # "Total Notes" => notes = <<>>
            /\ (~static /\ prefixed /\ LastSegment(uri) \in Keys(notes)) =>
                /\ out.kind = "return"
                /\ MemberKeys(out.value.members) = {"title", "content", "created", "updated", "tags"}
                /\ Member(out.value.members, "title") = Get(notes, LastSegment(uri)).title
            /\ (~static /\ prefixed /\ LastSegment(uri) \notin Keys(notes)) =>
                /\ out.kind = "raise"
                /\ out.exc.msg = "Note not found"
                /\ out.exc.id = LastSegment(uri)
            /\ (~static /\ ~prefixed) =>
                /\ out.kind = "raise"
                /\ out.exc.msg = "Unknown resource URI"
                /\ out.exc.uri = uri

\* C13 witness: a read of notes://list has just returned the members of two
\* stored notes, where a lookup of its last segment, list, would have found
\* no note.
C13_Witness ==
    /\ req.op = "read_resource"
    /\ req.uri = ListUri
    /\ resp.kind = "return"
    /\ Len(resp.value.members) = 2
    /\ LastSegment(req.uri) \notin Keys(notes)

\* the numerals a text names: its maximal runs of digits
DigitRuns(s) ==
    LET digit(i) == s[i] \in {Digit[k] : k \in 1..10}
    IN  {SubSeq(s, i, j) : <<i, j>> \in
            {p \in (1..Len(s)) \X (1..Len(s)) :
                /\ p[1] <= p[2]
                /\ \A k \in p[1]..p[2] : digit(k)
                /\ p[1] = 1 \/ ~digit(p[1] - 1)
                /\ p[2] = Len(s) \/ ~digit(p[2] + 1)}}

\* C14: each call of list_resource_templates describes its template with
\* exactly the ids the store holds at that call: whatever create_note and
\* delete_note calls came before, the description names every id of the
\* store and no other.
C14_TemplatesNamePresentIds ==
    /\ Len(list_resource_templates) = 1
    /\ DigitRuns(list_resource_templates[1].available) = Keys(notes)
    /\ (req.op = "list_resource_templates")
          => DigitRuns(resp.value[1].available) = Keys(notes)

\* C14 witness: list_resource_templates has just answered after a create_note
\* and a delete_note; its description names the created id 2 and not the
\* deleted id 1.
C14_Witness ==
    /\ req.op = "list_resource_templates"
    /\ issued = << <<"2">> >>
    /\ deleted = { <<"1">> }
    /\ DigitRuns(resp.value[1].available) = { <<"2">> }

\* the store holds a note of the running update_note with some of its
\* assignments made and others not
Torn ==
    /\ Running
    /\ req.name = "update_note"
    /\ LET note == Get(notes, req.arguments["id"])
       IN  /\ note # req.before
           /\ note # UpdatedNote(req.before, req.arguments)

\* C15: the assignments of one update_note call are atomic for every other
\* handler: what a read returns for the note being updated is the note as it
\* was before the call or the note with every supplied field and the stamp
\* written, never a note with some of them written; and when update_note
\* returns, the store holds what the whole call writes.
C15_UpdateWritesAreAtomic ==
    /\ (/\ Running
        /\ req.name = "update_note"
        /\ "seen" \in DOMAIN resp
        /\ resp.seen.kind = "return") =>
          LET id == req.arguments["id"]
              whole == {DumpNote(req.before),
                        DumpNote(UpdatedNote(req.before, req.arguments))}
          IN  /\ resp.uri = NotePrefix \o id => resp.seen.value.members \in whole
              /\ resp.uri = ListUri => Member(resp.seen.value.members, id) \in whole
    /\ Torn => ~ENABLED StepRead
    /\ (Running /\ req.name = "update_note" /\ req.pc = "return") =>
          Get(notes, req.arguments["id"]) = UpdatedNote(req.before, req.arguments)

\* C15 witness: update_note of a title and tags is running on note 1 with the
\* title written and the tags and the stamp not yet.
C15_Witness ==
    /\ Torn
    /\ req.pc = "tags"
    /\ req.arguments = [id |-> <<"1">>, title |-> <<"c">>, tags |-> <<>>]
    /\ Get(notes, <<"1">>).title = <<"c">>
    /\ Get(notes, <<"1">>).tags = Welcome.tags
    /\ Get(notes, <<"1">>).updated = Preloaded

\* C16: there is no partial failure.  Every tool invocation, of a known or an
\* unknown name, with any of its arguments present or missing, and every
\* resource read that ends in an exception leaves the store and the counter
\* exactly as they were before the call.
C16_NoPartialFailure ==
    /\ \A name \in ToolNames \cup UnknownNames :
          \A arguments \in ArgsOf(name) \cup (IF name = "create_note"
                                              THEN LooseCreateArgs ELSE {}) :
             LET r == call_tool(name, arguments)
             IN  r.out.kind = "raise" =>
                    /\ r.notes = notes
                    /\ r.note_counter = note_counter
    /\ \A uri \in Uris :
          LET r == read_resource(uri)
          IN  r.out.kind = "raise" =>
                 /\ r.notes = notes
                 /\ r.note_counter = note_counter

InitialStore ==
    /\ notes = << [id |-> <<"1">>, note |-> Welcome] >>
    /\ note_counter = 2

\* the first create_note, called on the initial store, has just returned
FirstCreated ==
    /\ Returned("create_note", "Created note with ID")
    /\ Len(issued) = 1
    /\ Len(notes) = 2
    /\ notes[1] = [id |-> <<"1">>, note |-> Welcome]

\* q, letter case aside, occurs in the title or the content of the note, or in
\* one of its tags when tags are searched
OccursIn(q, note, in_tags) ==
    \/ Occurs(lower(q), lower(note.title))
    \/ Occurs(lower(q), lower(note.content))
    \/ in_tags /\ \E t \in 1..Len(note.tags) : Occurs(lower(q), lower(note.tags[t]))

\* create_note on the initial store returns id 2 for every title, content and
\* tags, and a search_notes that follows with a query that occurs in the new
\* note and nowhere in note 1 reports note 2 and no other.  The tags of the
\* new note count as a place the query occurs in always (any_tags), or only
\* when the call searches tags.
FirstCreateIsTwoAndFound(any_tags) ==
    /\ InitialStore =>
          \A arguments \in {a \in CreateArgs : {"title", "content"} \subseteq DOMAIN a} :
              LET r == call_tool("create_note", arguments)
              IN  /\ r.out.kind = "return"
                  /\ r.out.content[1].text.id = <<"2">>
                  /\ KeyOrder(r.notes) = << <<"1">>, <<"2">> >>
                  /\ Get(r.notes, <<"2">>).title = arguments["title"]
    /\ FirstCreated =>
          /\ ReturnedId = <<"2">>
          /\ \A query \in Queries :
                \A st \in Opt("search_tags", BOOLEAN) :
                    LET out == call_tool("search_notes", ("query" :> query) @@ st).out
                    IN  (/\ OccursIn(query, Get(notes, <<"2">>),
                                     any_tags \/ GetOr(st, "search_tags", TRUE))
                         /\ ~OccursIn(query, Welcome, TRUE))
                        => /\ out.content[1].text.msg = "Found note(s)"
                           /\ out.content[1].text.count = 1
                           /\ Len(out.content[1].text.lines) = 1
                           /\ out.content[1].text.lines[1].id = <<"2">>
    /\ (/\ Returned("search_notes", resp.content[1].text.msg)
        /\ issued = << <<"2">> >>
        /\ Len(notes) = 2
        /\ notes[1] = [id |-> <<"1">>, note |-> Welcome]
        /\ OccursIn(req.arguments["query"], notes[2].note,
                    any_tags \/ GetOr(req.arguments, "search_tags", TRUE))
        /\ ~OccursIn(req.arguments["query"], Welcome, TRUE))
       => Reported(resp) = { <<"2">> }

\* C18 as stated: on the initial store (note 1, "Welcome", counter 2)
\* create_note returns id 2 whatever its title, content and tags, and a
\* search_notes that follows, with a query that occurs in the new note's
\* title, content or tags and nowhere in note 1, reports the note with id 2
\* and no other.
C18_FoundByAnyField == FirstCreateIsTwoAndFound(TRUE)

\* C18, amended: as stated, with the new note's tags counted only when the
\* search_notes call has search_tags true or omitted.
C18_FirstCreateIsTwoAndFound == FirstCreateIsTwoAndFound(FALSE)

\* C18 witness: the first create_note returned id 2 and the search_notes for
\* "B", which occurs in the new note's title "Ab" alone, has just reported
\* note 2 and no other.
C18_Witness ==
    /\ Returned("search_notes", "Found note(s)")
    /\ req.arguments = [query |-> <<"B">>]
    /\ issued = << <<"2">> >>
    /\ notes[1] = [id |-> <<"1">>, note |-> Welcome]
    /\ Get(notes, <<"2">>).title = <<"A","b">>
    /\ Reported(resp) = { <<"2">> }

\* C19: search_notes answers with a listing whose count is the number of its
\* lines, at least one, with no note on two lines (a note whose title or
\* content matches and whose tag matches too is listed once) and every
\* matching note on a line; when no note matches it answers with the
\* no-matches message, which carries no count.
C19_CountedListingOrNoMatches ==
    \A arguments \in {a \in SearchArgs : "query" \in DOMAIN a} :
        LET text == call_tool("search_notes", arguments).out.content[1].text
            matching == {id \in Keys(notes) :
                            OccursIn(arguments["query"], Get(notes, id),
                                     GetOr(arguments, "search_tags", TRUE))}
        IN  IF matching # {}
            THEN /\ text.msg = "Found note(s)"
                 /\ text.count = Len(text.lines)
                 /\ text.count = Cardinality(matching)
                 /\ \A i, j \in 1..Len(text.lines) :
                       text.lines[i].id = text.lines[j].id => i = j
                 /\ {text.lines[i].id : i \in 1..Len(text.lines)} = matching
            ELSE /\ text.msg = "No notes found matching"
                 /\ DOMAIN text = {"msg", "query"}

\* C19 witness: search_notes for "we", which occurs in the title of note 1 and
\* in its tag "welcome", has just answered with a listing of count 1 beside a
\* second stored note.
C19_Witness ==
    /\ Returned("search_notes", "Found note(s)")
    /\ req.arguments = [query |-> <<"w","e">>]
    /\ TextMatch(<<"w","e">>, Get(notes, <<"1">>))
    /\ TagMatch(<<"w","e">>, Get(notes, <<"1">>))
    /\ Len(notes) = 2
    /\ resp.content[1].text.count = 1
    /\ resp.content[1].text.lines[1].id = <<"1">>

\* the pieces of a text between its ", " separators
RECURSIVE Pieces(_)
Pieces(s) ==
    LET seps == {i \in 1..(Len(s) - 1) : s[i] = "," /\ s[i + 1] = " "}
    IN  IF seps = {} THEN <<s>>
        ELSE LET i == CHOOSE k \in seps : \A m \in seps : k <= m
             IN  <<SubSeq(s, 1, i - 1)>> \o Pieces(SubSeq(s, i + 2, Len(s)))

\* create_note bags with two different tags, in either order
EchoArgs ==
    { [title |-> <<"c">>, content |-> <<"c">>, tags |-> << <<"D">>, <<"e">> >>],
      [title |-> <<"c">>, content |-> <<"c">>, tags |-> << <<"e">>, <<"D">> >>] }

\* C20: the text create_note returns carries the id the new note is stored
\* under, an id the store did not hold, and the supplied tags in their order;
\* with tags omitted or empty it carries the marker "none" and the note is
\* stored with an empty tag sequence.
C20_CreateTextEchoesIdAndTags ==
    \A arguments \in {a \in CreateArgs : {"title", "content"} \subseteq DOMAIN a}
                     \cup EchoArgs :
        LET r == call_tool("create_note", arguments)
            text == r.out.content[1].text
            tags == IF "tags" \in DOMAIN arguments THEN arguments["tags"] ELSE <<>>
        IN  /\ r.out.kind = "return"
            /\ text.msg = "Created note with ID"
            /\ text.id \notin Keys(notes)
            /\ Keys(r.notes) = Keys(notes) \cup {text.id}
            /\ Get(r.notes, text.id).title = arguments["title"]
            /\ Get(r.notes, text.id).content = arguments["content"]
            /\ Get(r.notes, text.id).tags = tags
            /\ tags # <<>> => Pieces(text.tags) = tags
            /\ tags = <<>> => text.tags = <<"n","o","n","e">>

\* C20 witness: the second create_note, called without tags, has just
\* returned id 3 with the marker "none", and note 3 is stored without tags.
C20_Witness ==
    /\ Returned("create_note", "Created note with ID")
    /\ "tags" \notin DOMAIN req.arguments
    /\ ReturnedId = <<"3">>
    /\ resp.content[1].text.tags = <<"n","o","n","e">>
    /\ Get(notes, <<"3">>).tags = <<>>
    /\ Get(notes, <<"3">>).title = req.arguments["title"]

\* C21: a create_note that returns takes as id the value the counter had
\* before the call, raises the counter by exactly 1, adds exactly one note,
\* under that id, with created and updated equal, and leaves every note the
\* store held as it was: the id is no key of the store before the call.
C21_CreateAddsOneNote ==
    \A arguments \in {a \in CreateArgs : {"title", "content"} \subseteq DOMAIN a} :
        LET r == call_tool("create_note", arguments)
            id == r.out.content[1].text.id
        IN  /\ r.out.kind = "return"
            /\ int(id) = note_counter
            /\ id = str(note_counter)
            /\ r.note_counter = note_counter + 1
            /\ id \notin Keys(notes)
            /\ Len(r.notes) = Len(notes) + 1
            /\ SubSeq(r.notes, 1, Len(notes)) = notes
            /\ r.notes[Len(notes) + 1].id = id
            /\ Get(r.notes, id).created = Get(r.notes, id).updated
            /\ Get(r.notes, id).created = now

\* C21 witness: the second create_note has just returned id 3; the counter is
\* 4 and notes 1 and 2 are stored before note 3, note 1 with its own stamps.
C21_Witness ==
    /\ Returned("create_note", "Created note with ID")
    /\ ReturnedId = <<"3">>
    /\ note_counter = 4
    /\ KeyOrder(notes) = << <<"1">>, <<"2">>, <<"3">> >>
    /\ Get(notes, <<"3">>).created = now
    /\ Get(notes, <<"3">>).updated = now
    /\ Get(notes, <<"1">>) = Welcome

\* the supplied fields all carry the values the note already holds
SameValues(note, fields) ==
    /\ GetOr(fields, "title", note.title) = note.title
    /\ GetOr(fields, "content", note.content) = note.content
    /\ GetOr(fields, "tags", note.tags) = note.tags

\* C22 as stated: update_note whose supplied fields all carry the values the
\* note already holds leaves the note's updated stamp as it was.
C22_SameValuesKeepStamp ==
    \A id \in Keys(notes) :
      \A fields \in FieldArgs :
        SameValues(Get(notes, id), fields) =>
            Get(call_tool("update_note", ("id" :> id) @@ fields).notes, id).updated
                = Get(notes, id).updated

\* C22, amended: update_note recomputes the updated stamp if and only if at
\* least one of title, content, tags is supplied, whether or not a value
\* changes: an update_note whose supplied fields all carry the values the note
\* already holds sets the stamp to the clock's reading at the call and leaves
\* the rest of the note as it was; one that supplies no field leaves the stamp.
C22_SuppliedFieldsSetStamp ==
    \A id \in Keys(notes) :
      \A fields \in FieldArgs :
        LET old == Get(notes, id)
            new == Get(call_tool("update_note", ("id" :> id) @@ fields).notes, id)
        IN  /\ new.updated = IF DOMAIN fields # {} THEN now ELSE old.updated
            /\ SameValues(old, fields) => new = [old EXCEPT !.updated = new.updated]

\* C22 witness: update_note has just returned for note 2 with the title "c"
\* and the empty tags note 2 was created with, at a later instant; the note's
\* updated stamp is the present instant.
C22_Witness ==
    /\ Returned("update_note", "Updated note")
    /\ req.arguments = [id |-> <<"2">>, title |-> <<"c">>, tags |-> <<>>]
    /\ Get(notes, <<"2">>).content = <<"b","A">>
    /\ Get(notes, <<"2">>).created < now
    /\ Get(notes, <<"2">>).updated = now

\* the ids of a sequence rise as numbers
Ascending(ids) == \A i, j \in 1..Len(ids) : i < j => int(ids[i]) < int(ids[j])

\* C23: after any sequence of create_note, update_note and delete_note calls
\* the store iterates in ascending numeric id (9 before 10), and so do the
\* members of notes://list, the entries of notes://summary, the lines of a
\* search_notes listing and the ids of the template's description;
\* update_note leaves every note at its place.
C23_AscendingNumericOrder ==
    LET list == read_resource(ListUri).out.value.members
        summary == read_resource(SummaryUri).out.value.summary
        found == call_tool("search_notes", [query |-> <<>>]).out.content[1].text
        available == list_resource_templates[1].available
    IN  /\ Ascending(KeyOrder(notes))
        /\ [i \in 1..Len(list) |-> list[i].key] = KeyOrder(notes)
        /\ notes # <<>> =>
              /\ [i \in 1..Len(summary.entries) |-> summary.entries[i].id] = KeyOrder(notes)
              /\ [i \in 1..Len(found.lines) |-> found.lines[i].id] = KeyOrder(notes)
              /\ Pieces(available) = KeyOrder(notes)
        /\ \A id \in Keys(notes) :
              \A fields \in FieldCalls :
                 KeyOrder(call_tool("update_note", ("id" :> id) @@ fields).notes)
                     = KeyOrder(notes)

\* C23 witness: notes://list has just been read with note 9, updated after
\* note 10 was created, listed right before note 10.
C23_Witness ==
    /\ req.op = "read_resource"
    /\ req.uri = ListUri
    /\ \E i \in 1..(Len(notes) - 1) :
          /\ resp.value.members[i].key = <<"9">>
          /\ resp.value.members[i + 1].key = <<"1","0">>
    /\ Get(notes, <<"9">>).title = <<"A","b">>
    /\ note_counter = 11

\* C24: in every store and for every query, search_notes called without
\* search_tags returns what the same call with search_tags true returns.
C24_TagsSearchedByDefault ==
    \A query \in Queries :
        LET omitted == call_tool("search_notes", [query |-> query])
            asked == call_tool("search_notes", [query |-> query, search_tags |-> TRUE])
        IN  /\ omitted.out = asked.out
            /\ omitted.notes = asked.notes
            /\ omitted.note_counter = asked.note_counter

\* C24 witness: search_notes for "d", called without search_tags, has just
\* reported a note by its tag "D"; the same call with search_tags false finds
\* no note.
C24_Witness ==
    /\ Returned("search_notes", "Found note(s)")
    /\ req.arguments = [query |-> <<"d">>]
    /\ resp.content[1].text.lines[1].tag_match
    /\ call_tool("search_notes", [query |-> <<"d">>, search_tags |-> FALSE])
          .out.content[1].text.msg = "No notes found matching"

\* C25: delete_note on an id of the store removes the note with that id and
\* no other, reports the id and the title the note had, and leaves every
\* other note, the order of the notes and the counter as they were.
C25_DeleteRemovesOneNote ==
    \A id \in Keys(notes) :
        LET r == call_tool("delete_note", [id |-> id])
            text == r.out.content[1].text
        IN  /\ r.out.kind = "return"
            /\ text.msg = "Deleted note"
            /\ text.id = id
            /\ text.title = Get(notes, id).title
            /\ Keys(r.notes) = Keys(notes) \ {id}
            /\ r.notes = SelectSeq(notes, LAMBDA e : e.id # id)
            /\ r.note_counter = note_counter

\* C25 witness: delete_note has just removed note 9 and reported the title
\* "Ab" an update had given it; note 10 is still stored and the counter is 11.
C25_Witness ==
    /\ Returned("delete_note", "Deleted note")
    /\ ReturnedId = <<"9">>
    /\ resp.content[1].text.title = <<"A","b">>
    /\ <<"9">> \notin Keys(notes)
    /\ <<"1","0">> \in Keys(notes)
    /\ note_counter = 11

\* the request handled by the step is a create_note, update_note or
\* delete_note call
Mutating ==
    /\ req'.op = "call_tool"
    /\ req'.name \in {"create_note", "update_note", "delete_note"}

\* C26: the read-only operations never change the store.  A step that
\* handles a resource read (returned or raised), a search_notes call or a
\* catalog call leaves the notes and the counter as they were; a step that
\* changes them handles a create_note, update_note or delete_note call.
C26_OnlyThreeToolsWrite ==
    [][/\ (notes' # notes \/ note_counter' # note_counter) => Mutating
       /\ (req' # req /\ ~Mutating) => (notes' = notes /\ note_counter' = note_counter)]_vars

\* C26 witness: notes://note/2 has just been read and returned, and note 2 is
\* in the store, which holds two notes; the counter is 3.
C26_Witness ==
    /\ req.op = "read_resource"
    /\ req.uri = NotePrefix \o <<"2">>
    /\ resp.kind = "return"
    /\ KeyOrder(notes) = << <<"1">>, <<"2">> >>
    /\ note_counter = 3

\* tag lists with a repeated tag and with tags out of alphabetical order
TagSeqs ==
    TagLists \cup { << <<"e">>, <<"D">>, <<"e">> >>, << <<"D">>, <<"e">> >> }

\* C27: a note's tags are the sequence given to the last create_note or
\* update_note that set them, in its order and with its repeated tags, and a
\* read of notes://note/<id> returns them so.  For every tag list, create_note
\* and update_note store the list as given; an update_note that has just
\* returned left the list it was given; every read returns the stored list.
C27_TagsKeptAsSupplied ==
    /\ \A tags \in TagSeqs :
          /\ LET r == call_tool("create_note",
                                [title |-> <<"c">>, content |-> <<"c">>, tags |-> tags])
             IN  Get(r.notes, r.out.content[1].text.id).tags = tags
          /\ \A id \in Keys(notes) :
                LET r == call_tool("update_note", [id |-> id, tags |-> tags])
                IN  /\ Get(r.notes, id).tags = tags
                    /\ \A other \in Keys(notes) \ {id} :
                          Get(r.notes, other).tags = Get(notes, other).tags
    /\ (Returned("update_note", "Updated note") /\ "tags" \in DOMAIN req.arguments)
          => Get(notes, ReturnedId).tags = req.arguments["tags"]
    /\ \A id \in Keys(notes) :
          Member(read_resource(NotePrefix \o id).out.value.members, "tags")
              = Get(notes, id).tags
    /\ (/\ req.op = "read_resource"
        /\ startswith(req.uri, NotePrefix)
        /\ resp.kind = "return")
          => Member(resp.value.members, "tags") = Get(notes, LastSegment(req.uri)).tags

\* C27 witness: notes://note/1 has just been read and returned the tags
\* e, D, e that an update_note had given note 1.
C27_Witness ==
    /\ req.op = "read_resource"
    /\ req.uri = NotePrefix \o <<"1">>
    /\ resp.kind = "return"
    /\ Member(resp.value.members, "tags") = << <<"e">>, <<"D">>, <<"e">> >>
    /\ Get(notes, <<"1">>).tags = << <<"e">>, <<"D">>, <<"e">> >>

\* C28: with several requests pending, a handler that has started runs to its
\* end before another handler runs: create_note does not suspend between
\* reading the counter and storing the note.  While a create_note has taken
\* its id and not yet stored its note, no other handler can run, the counter
\* is the one it read or the one it wrote, and its id is no key of the
\* store; so no two create_note requests are given the same id and neither
\* stores over the other's note.
C28_PendingCreatesGetDistinctIds ==
    /\ \A i, j \in 1..Len(issued) : i # j => issued[i] # issued[j]
    /\ \A i \in 1..Len(issued) :
          issued[i] \in Keys(notes) => Get(notes, issued[i]).created >= Preloaded + 1
    /\ (Running /\ req.name = "create_note") =>
          /\ req.pc = "increment" => note_counter = int(req.note_id)
          /\ req.pc \in {"store", "created"} => note_counter = int(req.note_id) + 1
          /\ req.pc \in {"increment", "store"} => req.note_id \notin Keys(notes)
          /\ req.pc = "created" =>
                /\ Get(notes, req.note_id).title = req.arguments["title"]
                /\ Get(notes, req.note_id).content = req.arguments["content"]
          /\ req.note_id \notin {issued[i] : i \in 1..Len(issued)}
          /\ ~ENABLED StepCreate
          /\ ~ENABLED StepRead
          /\ ~ENABLED BeginUpdate

\* C28 witness: a second create_note has taken the id 3 and raised the counter
\* to 4 and has not stored its note yet, while the note of the first, 2, is
\* in the store.
C28_Witness ==
    /\ Running
    /\ req.name = "create_note"
    /\ req.pc = "store"
    /\ req.note_id = <<"3">>
    /\ note_counter = 4
    /\ issued = << <<"2">> >>
    /\ Keys(notes) = { <<"1">>, <<"2">> }

\* the names list_tools returns, in its order
ListedNames == [i \in 1..Len(list_tools) |-> list_tools[i].name]

\* C29: the catalog and the dispatchers agree in every reachable store:
\* list_tools names four tools, each once, they are the four branches of
\* call_tool, none of them called with any argument bag raises the
\* unknown-tool ValueError, and every URI of list_resources is read by
\* read_resource with a returned payload, also when the store is empty.
C29_CatalogAndDispatchAgree ==
    /\ Len(ListedNames) = 4
    /\ \A i, j \in 1..Len(ListedNames) : i # j => ListedNames[i] # ListedNames[j]
    /\ \A i \in 1..Len(ListedNames) :
          \A arguments \in ArgsOf(ListedNames[i]) :
              LET out == call_tool(ListedNames[i], arguments).out
              IN  out.kind = "raise" => out.exc # UnknownTool(ListedNames[i])
    /\ \A i \in 1..Len(list_resources) :
          LET out == read_resource(list_resources[i].uri).out
          IN  /\ out.kind = "return"
              /\ out.value.format =
                    (IF list_resources[i].mimeType = "application/json"
                     THEN "json" ELSE "text")
              /\ (notes = <<>> /\ list_resources[i].uri = ListUri) =>
                    out.value.members = <<>>
              /\ (notes = <<>> /\ list_resources[i].uri = SummaryUri) =>
                    out.value.summary.msg = "No notes available."

\* C29 witness: the store is empty and the listed notes://summary has just
\* been read and returned its text.
C29_Witness ==
    /\ notes = <<>>
    /\ req.op = "read_resource"
    /\ req.uri = SummaryUri
    /\ req.uri \in {list_resources[i].uri : i \in 1..Len(list_resources)}
    /\ resp.kind = "return"
    /\ resp.value.format = "text"

\* C30: under notes://note/ the identifier is the text after the last "/":
\* notes://note/<id> returns a record exactly when <id> is in the store, and
\* then that note's; notes://note/x/<id> is answered as notes://note/<id> is;
\* notes://note/, whose last segment is empty, raises for the empty id.
C30_LastSegmentIsTheId ==
    /\ \A id \in IdInputs :
          LET plain == read_resource(NotePrefix \o id).out
              nested == read_resource(NotePrefix \o <<"x","/">> \o id).out
          IN  /\ plain.kind = "return" <=> id \in Keys(notes)
              /\ plain.kind = "return" =>
                    plain.value = [format |-> "json",
                                   members |-> DumpNote(Get(notes, id))]
              /\ plain.kind = "raise" => plain = NoteNotFound(id).out
              /\ nested = plain
    /\ read_resource(NotePrefix).out = NoteNotFound(<<>>).out
    /\ NotePrefix \in Uris

\* C30 witness: notes://note/x/1 has just been read and returned note 1.
C30_Witness ==
    /\ req.op = "read_resource"
    /\ req.uri = NotePrefix \o <<"x","/","1">>
    /\ resp.kind = "return"
    /\ resp.value.members = DumpNote(Get(notes, <<"1">>))
    /\ <<"1">> \in Keys(notes)

====
